---- MODULE Spec2Model ----
(***************************************************************************)
(* Model of src/graph/tuning.cc: the thread-count resolver (getNthreads),  *)
(* the feature-list parser (parseList), the threshold builder              *)
(* (ncclTopoSetThresholds) and the time estimator (ncclTopoGetAlgoTime).   *)
(*                                                                         *)
(* Floating-point quantities (latencies in us, bandwidths in GB/s, times)  *)
(* are modelled as exact rationals <<num, den>> in lowest terms, den > 0. *)
(* C strings are sequences of one-character strings.                       *)
(***************************************************************************)
EXTENDS Integers, Sequences, FiniteSets, TLC

VARIABLES
  nRanks, nNodes,      \* comm->nRanks, comm->nNodes
  compCap,             \* <<minCompCap, maxCompCap>>
  graphs,              \* [algorithm -> ncclTopoGraph]
  env,                 \* the environment variables the builder reads
  bandwidths,          \* comm->bandwidths[coll][a][p]
  latencies,           \* comm->latencies[coll][a][p]
  maxThreads,          \* comm->maxThreads[a][p]
  threadThresholds,    \* comm->threadThresholds[a][p]
  assigned,            \* the table cells ncclTopoSetThresholds has stored to
  pc,                  \* position of the communicator / of the utility call
  info,                \* the last ncclTopoGetAlgoTime request
  time,                \* *time of the last ncclTopoGetAlgoTime request
  ntArgs, ntResult,    \* arguments and result of a getNthreads call
  plStr, plElems, plList  \* arguments and result of a parseList call

vars == <<nRanks, nNodes, compCap, graphs, env, bandwidths, latencies,
          maxThreads, threadThresholds, assigned, pc, info, time,
          ntArgs, ntResult, plStr, plElems, plList>>

tuneVars == <<nRanks, nNodes, compCap, graphs, env, bandwidths, latencies,
              maxThreads, threadThresholds, assigned, info, time>>

(***************************************************************************)
(* Bounds of the model.                                                    *)
(***************************************************************************)
MaxEnvThreads == 330   \* largest thread-count override tried
MaxPieces == 4         \* fragments concatenated into a parseList string
TopBucket == 23        \* largest size bucket a byte count is drawn from

(***************************************************************************)
(* Enumerations and constants of the headers.                              *)
(***************************************************************************)
NCCL_ALGO_TREE == 0
NCCL_ALGO_RING == 1
NCCL_ALGO_COLLNET == 2
NCCL_NUM_ALGORITHMS == 3
NCCL_PROTO_LL == 0
NCCL_PROTO_LL128 == 1
NCCL_PROTO_SIMPLE == 2
NCCL_NUM_PROTOCOLS == 3
ncclCollBroadcast == 0
ncclCollReduce == 1
ncclCollAllGather == 2
ncclCollReduceScatter == 3
ncclCollAllReduce == 4
NCCL_NUM_FUNCTIONS == 5
NCCL_HW_NVLINK == 0
NCCL_HW_PCI == 1
NCCL_HW_NET == 2
WARP_SIZE == 64
NCCL_MAX_NTHREADS == 256
NCCL_LL128_MAX_NTHREADS == 256
PCI_WIDTH == 12
LINK_NVL == 1
LINK_PCI == 2
LINK_NET == 6
NCCL_LL_THREAD_THRESHOLD == 8
NCCL_LL128_THREAD_THRESHOLD == 8
NCCL_SIMPLE_THREAD_THRESHOLD == 64
NthreadsDefault == -2
Ll128NthreadsDefault == -2

Algos == 0 .. (NCCL_NUM_ALGORITHMS - 1)
Protos == 0 .. (NCCL_NUM_PROTOCOLS - 1)
Colls == 0 .. (NCCL_NUM_FUNCTIONS - 1)

(***************************************************************************)
(* Exact rational arithmetic.  Products are cross-reduced before they are  *)
(* formed so that intermediate values stay small.                          *)
(***************************************************************************)
Abs(x) == IF x < 0 THEN -x ELSE x

RECURSIVE Euclid(_, _)
Euclid(a, b) == IF b = 0 THEN a ELSE Euclid(b, a % b)

\* greatest common divisor, 1 for Gcd(0, 0) so that x \div Gcd(..) is total
Gcd(a, b) == IF a = 0 /\ b = 0 THEN 1 ELSE Euclid(a, b)

Rat(n, d) ==
  LET g == Gcd(Abs(n), Abs(d))
      s == IF d < 0 THEN -1 ELSE 1
  IN <<s * (n \div g), s * (d \div g)>>

RInt(n) == <<n, 1>>

RMul(x, y) ==
  LET g1 == Gcd(Abs(x[1]), y[2])
      g2 == Gcd(Abs(y[1]), x[2])
  IN Rat((x[1] \div g1) * (y[1] \div g2), (x[2] \div g2) * (y[2] \div g1))

RDiv(x, y) == RMul(x, IF y[1] < 0 THEN <<-y[2], -y[1]>> ELSE <<y[2], y[1]>>)

RAdd(x, y) ==
  LET g == Gcd(x[2], y[2])
  IN Rat(x[1] * (y[2] \div g) + y[1] * (x[2] \div g), (x[2] \div g) * y[2])

\* x <= y, comparing integer parts first and the fractional parts after
RLe(x, y) ==
  LET fx == x[1] \div x[2]
      fy == y[1] \div y[2]
  IN IF fx # fy THEN fx < fy
     ELSE (x[1] % x[2]) * y[2] <= (y[1] % y[2]) * x[2]

RMin(x, y) == IF RLe(y, x) THEN y ELSE x

(***************************************************************************)
(* getNthreads                                                             *)
(***************************************************************************)
getNthreadsNoWarpCheck(envv, min, max, def) ==
  IF envv > 0
    THEN IF envv > max THEN max
         ELSE IF envv < min THEN min
         ELSE envv
    ELSE def

getNthreads(envv, min, max, def) ==
  IF envv > 0
    THEN IF envv % WARP_SIZE # 0 THEN max
         ELSE IF envv > max THEN max
         ELSE IF envv < min THEN min
         ELSE envv
    ELSE def

(***************************************************************************)
(* parseList                                                               *)
(***************************************************************************)
UpperCase == <<"A","B","C","D","E","F","G","H","I","J","K","L","M",
               "N","O","P","Q","R","S","T","U","V","W","X","Y","Z">>
LowerCase == <<"a","b","c","d","e","f","g","h","i","j","k","l","m",
               "n","o","p","q","r","s","t","u","v","w","x","y","z">>

tolower(c) ==
  IF \E i \in DOMAIN UpperCase : UpperCase[i] = c
    THEN LowerCase[CHOOSE i \in DOMAIN UpperCase : UpperCase[i] = c]
    ELSE c

\* strcasecmp(a, b) == 0
strcasecmpEq(a, b) ==
  /\ Len(a) = Len(b)
  /\ \A i \in 1 .. Len(a) : tolower(a[i]) = tolower(b[i])

\* strtok_r: skip leading delimiters, then take the characters up to the
\* next delimiter; the scan resumes after that delimiter.
RECURSIVE SkipDelims(_)
SkipDelims(s) ==
  IF s # <<>> /\ Head(s) = "," THEN SkipDelims(Tail(s)) ELSE s

RECURSIVE TokLen(_)
TokLen(s) ==
  IF s = <<>> \/ Head(s) = "," THEN 0 ELSE 1 + TokLen(Tail(s))

RECURSIVE ApplyTokens(_, _, _, _)
ApplyTokens(s, elems, list, set) ==
  LET t == SkipDelims(s)
  IN IF t = <<>> THEN list
     ELSE LET k == TokLen(t)
              token == SubSeq(t, 1, k)
              list2 == [i \in DOMAIN elems |->
                          IF strcasecmpEq(token, elems[i]) THEN set ELSE list[i]]
          IN ApplyTokens(SubSeq(t, k + 2, Len(t)), elems, list2, set)

parseListNoNegation(str, elems) ==
  ApplyTokens(str, elems, [i \in DOMAIN elems |-> 0], 1)

parseList(str, elems) ==
  LET neg == str # <<>> /\ str[1] = "^"
      def == IF neg THEN 1 ELSE 0
      set == IF neg THEN 0 ELSE 1
      rest == IF neg THEN Tail(str) ELSE str
  IN ApplyTokens(rest, elems, [i \in DOMAIN elems |-> def], set)

ncclAlgoStr == << <<"T","r","e","e">>, <<"R","i","n","g">>,
                  <<"C","o","l","l","N","e","t">> >>
ncclProtoStr == << <<"L","L">>, <<"L","L","1","2","8">>,
                   <<"S","i","m","p","l","e">> >>

(***************************************************************************)
(* Static tables.  Latencies are written in tenths of a microsecond,       *)
(* correction factors in hundredths.                                       *)
(***************************************************************************)
baseLat == << <<379, 379, 404>>, <<205, 205, 279>>, <<379, 379, 404>> >>

hwLat ==
  << << <<12, 12, 38>>, <<23, 23, 27>>, <<12, 12, 38>> >>,     \* NVLINK
     << <<22, 22, 57>>, <<13, 13, 19>>, <<22, 22, 57>> >>,     \* PCI
     << <<98, 98, 195>>, <<20, 20, 45>>, <<98, 98, 195>> >> >> \* NET

ll128MaxBw == <<113, 72, 110, 91, 100>>

treeCorrectionFactor ==
  << <<100,100,100,100,100,100,100, 84, 49, 42, 60, 75, 87, 94, 94, 99,100,100,100,100,100,100>>,
     <<100,100,100,100,100,100,100, 84, 49, 42, 60, 75, 87, 94, 94, 99,100,100,100,100,100,100>>,
     <<100,100,100,100,100,100, 41, 27, 25, 39, 46, 72, 76, 87, 92, 97,100,100,100,100,100,100>> >>

ringCorrectionFactor ==
  << <<100,100,100,100,100,100, 25, 41, 55, 56, 78, 94,100,100,100,100,100,100,100,100,100,100>>,
     <<100,100,100,100,100,100, 25, 41, 55, 56, 78, 94,100,100,100,100,100,100,100,100,100,100>>,
     <<100,100,100,100,100,100,  4,  8,  9,  9, 11, 13, 25, 40, 59, 76, 86,100,100,100,100,100>> >>

BaseLat(a, p) == Rat(baseLat[a + 1][p + 1], 10)
HwLat(h, a, p) == Rat(hwLat[h + 1][a + 1][p + 1], 10)

\* log2i of the utility header: the number of halvings that leave n nonzero
RECURSIVE log2i(_)
log2i(n) == IF n \div 2 = 0 THEN 0 ELSE 1 + log2i(n \div 2)

(***************************************************************************)
(* ncclTopoSetThresholds                                                   *)
(***************************************************************************)
Unset == [set |-> FALSE, val |-> <<>>]
EnvStr(s) == [set |-> TRUE, val |-> s]

\* lines 81-89
MaxThreadsTable ==
  LET ring == graphs[NCCL_ALGO_RING]
      simpleDefaultThreads ==
        IF RLe(RMul(ring.speedIntra, RInt(ring.nChannels)), RInt(PCI_WIDTH))
          THEN 256 ELSE NCCL_MAX_NTHREADS
      nt(def) == getNthreads(env.NTHREADS, 4 * WARP_SIZE, NCCL_MAX_NTHREADS, def)
      ll128 == getNthreads(env.LL128_NTHREADS, NCCL_LL128_MAX_NTHREADS \div 4,
                           NCCL_LL128_MAX_NTHREADS, NCCL_LL128_MAX_NTHREADS)
  IN [a \in Algos |-> [p \in Protos |->
        IF p = NCCL_PROTO_SIMPLE
          THEN IF a = NCCL_ALGO_RING THEN nt(simpleDefaultThreads)
               ELSE nt(NCCL_MAX_NTHREADS)
        ELSE IF p = NCCL_PROTO_LL THEN nt(NCCL_MAX_NTHREADS)
        ELSE ll128]]

\* lines 95-96
intraHw(a) == IF graphs[a].typeIntra = LINK_NVL THEN NCCL_HW_NVLINK ELSE NCCL_HW_PCI
hw(a) == IF nNodes = 1 THEN intraHw(a) ELSE NCCL_HW_NET

\* lines 99-101
nsteps(coll) ==
  IF coll = ncclCollAllReduce THEN 2 * (nRanks - 1)
  ELSE IF coll = ncclCollReduceScatter \/ coll = ncclCollAllGather THEN nRanks - 1
  ELSE nRanks

\* line 104: the (collective, algorithm) pairs the model loop computes
ModelAppliesAlways(coll, a) == TRUE
ModelApplies(coll, a) == ~(coll # ncclCollAllReduce /\ a # NCCL_ALGO_RING)

\* line 107
speedAlwaysInter(a) == graphs[a].speedInter
speed(a) ==
  IF nNodes <= 2 \/ a = NCCL_ALGO_COLLNET THEN graphs[a].speedIntra
  ELSE graphs[a].speedInter

\* lines 108-118
busBw(coll, a, p) ==
  LET b0 == RMul(RInt(graphs[a].nChannels), speed(a))
      b1 == IF a = NCCL_ALGO_RING /\ p = NCCL_PROTO_LL THEN RMul(b0, Rat(1, 5)) ELSE b0
      b2 == IF a = NCCL_ALGO_RING /\ p = NCCL_PROTO_LL128
              THEN RMin(RMul(b1, Rat(120, 128)), RInt(ll128MaxBw[coll + 1])) ELSE b1
      b3 == IF a = NCCL_ALGO_TREE
              THEN RMin(RMul(b2, Rat(27, 100)), RInt(IF nNodes > 1 THEN 70 ELSE 90)) ELSE b2
      b4 == IF a = NCCL_ALGO_TREE /\ p = NCCL_PROTO_LL THEN RMul(b3, Rat(10, 23)) ELSE b3
      b5 == IF a = NCCL_ALGO_TREE /\ p = NCCL_PROTO_LL128 THEN RMul(b4, Rat(7, 9)) ELSE b4
      b6 == IF a = NCCL_ALGO_COLLNET THEN RMul(b5, Rat(9, 10)) ELSE b5
      b7 == IF a = NCCL_ALGO_COLLNET /\ p = NCCL_PROTO_LL THEN RMul(b6, Rat(1, 6)) ELSE b6
  IN IF a = NCCL_ALGO_COLLNET /\ p = NCCL_PROTO_LL128 THEN RInt(0) ELSE b7

\* lines 121-122
modelBw(coll, a, p) ==
  LET ratio == IF a # NCCL_ALGO_RING THEN Rat(1, 2) ELSE Rat(nRanks, nsteps(coll))
  IN RMul(busBw(coll, a, p), ratio)

\* lines 124-147
modelLat(coll, a, p) ==
  LET base == BaseLat(a, p)
      intraLat == HwLat(intraHw(a), a, p)
      interLat == HwLat(NCCL_HW_NET, a, p)
  IN IF a = NCCL_ALGO_RING
       THEN LET lat == HwLat(hw(a), a, p)
            IN IF coll = ncclCollReduce \/ coll = ncclCollBroadcast
                 THEN IF graphs[NCCL_ALGO_RING].sameChannels
                        THEN RAdd(base, lat)
                        ELSE LET lat2 == IF p = NCCL_PROTO_SIMPLE
                                           THEN HwLat(hw(a), NCCL_ALGO_TREE, p) ELSE lat
                             IN RAdd(base, RMul(RInt(nsteps(coll)), lat2))
                 ELSE RAdd(base, RMul(RInt(nsteps(coll)), lat))
     ELSE IF a = NCCL_ALGO_TREE
       THEN RAdd(base, RMul(RInt(2),
              RAdd(RMul(RInt(nRanks \div nNodes - 1), intraLat),
                   RMul(RInt(log2i(nNodes)), interLat))))
     ELSE RAdd(base, RAdd(RMul(RInt(2 * (nRanks \div nNodes - 1)), intraLat), interLat))

\* lines 154-160
protoEnable ==
  IF env.NCCL_PROTO.set THEN parseList(env.NCCL_PROTO.val, ncclProtoStr) ELSE <<1, 2, 1>>

algoEnable ==
  IF env.NCCL_ALGO.set THEN parseList(env.NCCL_ALGO.val, ncclAlgoStr) ELSE <<1, 1, 1>>

\* line 166
ll128AutoDetect(a) ==
  /\ graphs[a].typeInter <= LINK_PCI
  /\ graphs[a].typeIntra = LINK_NVL
  /\ compCap[1] = 70
  /\ compCap[2] = 70

\* lines 163-167
pEnable(a, p) ==
  IF protoEnable[p + 1] = 2 /\ p = NCCL_PROTO_LL128
    THEN IF ll128AutoDetect(a) THEN 1 ELSE 0
    ELSE protoEnable[p + 1]

\* line 168
DisabledOnlyProto(a, p) == pEnable(a, p) = 0
Disabled(a, p) == pEnable(a, p) = 0 \/ algoEnable[a + 1] = 0

\* lines 162-169 on top of lines 98-150: the bandwidth and latency tables
bandwidthsAfter ==
  [c \in Colls |-> [a \in Algos |-> [p \in Protos |->
     IF Disabled(a, p) THEN RInt(0)
     ELSE IF ModelApplies(c, a) THEN modelBw(c, a, p)
     ELSE bandwidths[c][a][p]]]]

latenciesAfter ==
  [c \in Colls |-> [a \in Algos |-> [p \in Protos |->
     IF ModelApplies(c, a) THEN modelLat(c, a, p) ELSE latencies[c][a][p]]]]

\* lines 199-204
defaultThreshold(a, p) ==
  LET d == IF p = NCCL_PROTO_LL THEN NCCL_LL_THREAD_THRESHOLD
           ELSE IF p = NCCL_PROTO_LL128 THEN NCCL_LL128_THREAD_THRESHOLD
           ELSE NCCL_SIMPLE_THREAD_THRESHOLD
  IN IF a = NCCL_ALGO_RING /\ p = NCCL_PROTO_LL THEN d * nRanks ELSE d

\* line 209: the initializer names two rows of three; the third row of the
\* NCCL_NUM_ALGORITHMS x NCCL_NUM_PROTOCOLS array is zero-initialized
tInit == << <<-2, -2, -2>>, <<-2, -2, -2>>, <<0, 0, 0>> >>

\* line 210: sscanf stores the k-th converted number at t[0]+k
tScanned(vals) ==
  [a \in 1 .. 3 |-> [p \in 1 .. 3 |->
     LET k == (a - 1) * 3 + p
     IN IF k <= 6 /\ k <= Len(vals) THEN vals[k] ELSE tInit[a][p]]]

\* lines 199-216
threadThresholdsAfter ==
  [a \in Algos |-> [p \in Protos |->
     IF env.NCCL_THREAD_THRESHOLDS.set
          /\ tScanned(env.NCCL_THREAD_THRESHOLDS.val)[a + 1][p + 1] >= 0
       THEN tScanned(env.NCCL_THREAD_THRESHOLDS.val)[a + 1][p + 1]
       ELSE defaultThreshold(a, p)]]

Cell(table, c, a, p) == <<table, c, a, p>>

maxThreadsCells == { Cell("maxThreads", 0, a, p) : a \in Algos, p \in Protos }

\* the stores of lines 122, 124, 168, 200-204
modelCells ==
  { Cell("bandwidths", x[1], x[2], x[3]) :
      x \in { y \in Colls \X Algos \X Protos :
                ModelApplies(y[1], y[2]) \/ Disabled(y[2], y[3]) } }
  \cup { Cell("latencies", x[1], x[2], x[3]) :
      x \in { y \in Colls \X Algos \X Protos : ModelApplies(y[1], y[2]) } }
  \cup { Cell("threadThresholds", 0, a, p) : a \in Algos, p \in Protos }

\* line 91
singleRankNever == FALSE
singleRank == nRanks <= 1

SetThresholds ==
  /\ pc = "created"
  /\ maxThreads' = MaxThreadsTable
  /\ IF singleRank
       THEN /\ assigned' = assigned \cup maxThreadsCells
            /\ UNCHANGED <<bandwidths, latencies, threadThresholds>>
       ELSE /\ bandwidths' = bandwidthsAfter
            /\ latencies' = latenciesAfter
            /\ threadThresholds' = threadThresholdsAfter
            /\ assigned' = assigned \cup maxThreadsCells \cup modelCells
  /\ pc' = "ready"
  /\ UNCHANGED <<nRanks, nNodes, compCap, graphs, env, info, time,
                 ntArgs, ntResult, plStr, plElems, plList>>

(***************************************************************************)
(* ncclTopoGetAlgoTime.  A time is a mixed number <<whole, num, den>>,     *)
(* whole + num/den with 0 <= num < den in lowest terms.  The query is pure *)
(* (it changes nothing of the communicator), so a behaviour carries one    *)
(* request; every request is reachable from every built communicator.      *)
(***************************************************************************)
Sentinel == <<-1, 0, 1>>

\* x + n / d for a rational x >= 0, an integer n >= 0 and a rational d > 0
MixedSum(x, n, d) ==
  LET q == n \div d[1]
      r == n % d[1]
      w1 == q * d[2] + (r * d[2]) \div d[1]
      f1 == (r * d[2]) % d[1]             \* over d[1]
      w2 == x[1] \div x[2]
      f2 == x[1] % x[2]                   \* over x[2]
      g == Gcd(d[1], x[2])
      num == f1 * (x[2] \div g) + f2 * (d[1] \div g)
      den == (d[1] \div g) * x[2]
      fr == Rat(num % den, den)
  IN <<w1 + w2 + num \div den, fr[1], fr[2]>>

TLe(s, t) ==
  IF s[1] # t[1] THEN s[1] < t[1]
  ELSE LET g == Gcd(s[3], t[3])
       IN s[2] * (t[3] \div g) <= t[2] * (s[3] \div g)

\* lines 250-252
correction(algorithm, protocol, logSize) ==
  IF algorithm = NCCL_ALGO_TREE /\ logSize < 22
    THEN Rat(treeCorrectionFactor[protocol + 1][logSize + 1], 100)
  ELSE IF algorithm = NCCL_ALGO_RING /\ logSize < 22
    THEN Rat(ringCorrectionFactor[protocol + 1][logSize + 1], 100)
  ELSE RInt(1)

\* the value of bw after lines 251-252
correctedBwDivides(bw, algorithm, protocol, nBytes) ==
  RDiv(bw, correction(algorithm, protocol, log2i(nBytes \div 64)))

correctedBw(bw, algorithm, protocol, nBytes) ==
  RMul(bw, correction(algorithm, protocol, log2i(nBytes \div 64)))

\* line 247
isZeroBelowOne(bw) == bw[1] <= bw[2]
isZero(bw) == bw[1] = 0

\* lines 246-254
AlgoTime(coll, algorithm, protocol, nBytes) ==
  LET bw == bandwidths[coll][algorithm][protocol]
  IN IF isZero(bw) THEN Sentinel
     ELSE MixedSum(latencies[coll][algorithm][protocol], nBytes,
                   RMul(RInt(1000), correctedBw(bw, algorithm, protocol, nBytes)))

RECURSIVE Pow2(_)
Pow2(k) == IF k = 0 THEN 1 ELSE 2 * Pow2(k - 1)

ByteCounts ==
  {0, 63, 64, 4096, 8191, 8192, Pow2(20), Pow2(28) - 1, Pow2(28),
   Pow2(TopBucket + 6) + 1}

GetAlgoTime(coll, algorithm, protocol, nBytes) ==
  /\ pc = "ready"
  /\ info' = [coll |-> coll, algorithm |-> algorithm, protocol |-> protocol,
              nBytes |-> nBytes]
  /\ time' = AlgoTime(coll, algorithm, protocol, nBytes)
  /\ pc' = "estimated"
  /\ UNCHANGED <<nRanks, nNodes, compCap, graphs, env, bandwidths, latencies,
                 maxThreads, threadThresholds, assigned,
                 ntArgs, ntResult, plStr, plElems, plList>>

(***************************************************************************)
(* Inputs                                                                  *)
(***************************************************************************)
ShapeChoices == { <<1, 1>>, <<2, 1>>, <<16, 2>>, <<8, 4>>, <<4, 4>> }

CompCapChoices == { <<70, 70>>, <<60, 80>> }

GraphA == [nChannels |-> 2, speedIntra |-> RInt(24), speedInter |-> RInt(12),
           typeIntra |-> LINK_NVL, typeInter |-> LINK_PCI, sameChannels |-> TRUE]
GraphB == [nChannels |-> 1, speedIntra |-> RInt(12), speedInter |-> RInt(6),
           typeIntra |-> LINK_PCI, typeInter |-> LINK_NET, sameChannels |-> FALSE]
GraphC == [nChannels |-> 4, speedIntra |-> RInt(21), speedInter |-> RInt(12),
           typeIntra |-> LINK_NVL, typeInter |-> LINK_NET, sameChannels |-> FALSE]

GraphsChoices ==
  { [a \in Algos |-> GraphA],
    [a \in Algos |-> GraphB],
    [a \in Algos |-> IF a = NCCL_ALGO_RING THEN GraphC ELSE GraphA] }

ProtoEnvChoices ==
  { Unset,
    EnvStr(<<"^","L","L","1","2","8">>),
    EnvStr(<<"^","S","i","m","p","l","e">>),
    EnvStr(<<"L","L","1","2","8">>),
    EnvStr(<<"S","i","m","p","l","e",",","l","l">>) }

AlgoEnvChoices ==
  { Unset, EnvStr(<<"^","t","r","e","e">>) }

\* NCCL_NTHREADS, NCCL_LL128_NTHREADS, NCCL_THREAD_THRESHOLDS and the
\* contents of the tables before the call
OtherChoices ==
  { [NTHREADS |-> NthreadsDefault, LL128_NTHREADS |-> Ll128NthreadsDefault,
     NCCL_THREAD_THRESHOLDS |-> Unset, prior |-> RInt(0)],
    [NTHREADS |-> 128, LL128_NTHREADS |-> 100,
     NCCL_THREAD_THRESHOLDS |-> EnvStr(<<1000, 2000, 3000, 4000, 5000, 6000>>),
     prior |-> RInt(7)],
    [NTHREADS |-> 512, LL128_NTHREADS |-> 128,
     NCCL_THREAD_THRESHOLDS |-> EnvStr(<<-1, 2000, 0>>), prior |-> RInt(0)] }

NoInfo == [coll |-> 0, algorithm |-> 0, protocol |-> 0, nBytes |-> 0]

IdleUtilities ==
  /\ ntArgs = <<0, 0, 0, 0>>
  /\ ntResult = 0
  /\ plStr = <<>>
  /\ plElems = <<>>
  /\ plList = <<>>

IdleComm ==
  /\ nRanks = 1
  /\ nNodes = 1
  /\ compCap = <<70, 70>>
  /\ graphs = [a \in Algos |-> GraphA]
  /\ env = [NTHREADS |-> NthreadsDefault, LL128_NTHREADS |-> Ll128NthreadsDefault,
            NCCL_PROTO |-> Unset, NCCL_ALGO |-> Unset,
            NCCL_THREAD_THRESHOLDS |-> Unset]
  /\ bandwidths = [c \in Colls |-> [a \in Algos |-> [p \in Protos |-> RInt(0)]]]
  /\ latencies = [c \in Colls |-> [a \in Algos |-> [p \in Protos |-> RInt(0)]]]
  /\ maxThreads = [a \in Algos |-> [p \in Protos |-> 0]]
  /\ threadThresholds = [a \in Algos |-> [p \in Protos |-> 0]]
  /\ assigned = {}
  /\ info = NoInfo
  /\ time = <<0, 0, 1>>

Init ==
  /\ \E sh \in ShapeChoices : nRanks = sh[1] /\ nNodes = sh[2]
  /\ compCap \in CompCapChoices
  /\ graphs \in GraphsChoices
  /\ \E pe \in ProtoEnvChoices, ae \in AlgoEnvChoices, o \in OtherChoices :
       /\ env = [NTHREADS |-> o.NTHREADS, LL128_NTHREADS |-> o.LL128_NTHREADS,
                 NCCL_PROTO |-> pe, NCCL_ALGO |-> ae,
                 NCCL_THREAD_THRESHOLDS |-> o.NCCL_THREAD_THRESHOLDS]
       /\ bandwidths = [c \in Colls |-> [a \in Algos |-> [p \in Protos |-> o.prior]]]
       /\ latencies = [c \in Colls |-> [a \in Algos |-> [p \in Protos |-> o.prior]]]
  /\ maxThreads = [a \in Algos |-> [p \in Protos |-> 0]]
  /\ threadThresholds = [a \in Algos |-> [p \in Protos |-> 0]]
  /\ assigned = {}
  /\ pc = "created"
  /\ info = NoInfo
  /\ time = <<0, 0, 1>>
  /\ IdleUtilities

Next ==
  \/ SetThresholds
  \/ \E coll \in Colls, algorithm \in Algos, protocol \in Protos, nBytes \in ByteCounts :
       GetAlgoTime(coll, algorithm, protocol, nBytes)

Spec == Init /\ [][Next]_vars

(***************************************************************************)
(* getNthreads on its own.  The bounds are multiples of the warp width, as *)
(* they are at each of its call sites (lines 83-89).                       *)
(***************************************************************************)
WarpMultiples == { k * WARP_SIZE : k \in 1 .. (MaxEnvThreads \div WARP_SIZE) }

NthreadsBounds ==
  { <<mn, mx, df>> \in WarpMultiples \X WarpMultiples \X {256, NCCL_MAX_NTHREADS} :
      mn <= mx }
  \cup { <<4 * WARP_SIZE, NCCL_MAX_NTHREADS, NCCL_MAX_NTHREADS>>,
         <<NCCL_LL128_MAX_NTHREADS \div 4, NCCL_LL128_MAX_NTHREADS,
           NCCL_LL128_MAX_NTHREADS>> }

InitNthreads ==
  /\ IdleComm
  /\ pc = "nt_call"
  /\ \E e \in NthreadsDefault .. MaxEnvThreads, b \in NthreadsBounds :
       ntArgs = <<e, b[1], b[2], b[3]>>
  /\ ntResult = 0
  /\ plStr = <<>>
  /\ plElems = <<>>
  /\ plList = <<>>

CallGetNthreads ==
  /\ pc = "nt_call"
  /\ ntResult' = getNthreads(ntArgs[1], ntArgs[2], ntArgs[3], ntArgs[4])
  /\ pc' = "nt_done"
  /\ UNCHANGED <<tuneVars, ntArgs, plStr, plElems, plList>>

NextNthreads == CallGetNthreads

SpecNthreads == InitNthreads /\ [][NextNthreads]_vars

(***************************************************************************)
(* parseList on its own                                                    *)
(***************************************************************************)
abcStr == << <<"a">>, <<"b">>, <<"c">> >>

Fragments ==
  { <<"^">>, <<",">>, <<"a">>, <<"A">>, <<"b">>, <<"x">>, <<"L","l">>,
    <<"1","2","8">> }

RECURSIVE Strings(_)
Strings(k) ==
  IF k = 0 THEN { <<>> }
  ELSE Strings(k - 1) \cup { s \o f : s \in Strings(k - 1), f \in Fragments }

InitParse ==
  /\ IdleComm
  /\ pc = "pl_call"
  /\ plStr \in Strings(MaxPieces)
  /\ plElems \in { abcStr, ncclProtoStr }
  /\ plList = [i \in DOMAIN plElems |-> 2]
  /\ ntArgs = <<0, 0, 0, 0>>
  /\ ntResult = 0

CallParseList ==
  /\ pc = "pl_call"
  /\ plList' = parseList(plStr, plElems)
  /\ pc' = "pl_done"
  /\ UNCHANGED <<tuneVars, ntArgs, ntResult, plStr, plElems>>

NextParse == CallParseList

SpecParse == InitParse /\ [][NextParse]_vars

(***************************************************************************)
(* Properties                                                              *)
(***************************************************************************)
AllCells ==
  { Cell("bandwidths", c, a, p) : c \in Colls, a \in Algos, p \in Protos }
  \cup { Cell("latencies", c, a, p) : c \in Colls, a \in Algos, p \in Protos }
  \cup { Cell("maxThreads", 0, a, p) : a \in Algos, p \in Protos }
  \cup { Cell("threadThresholds", 0, a, p) : a \in Algos, p \in Protos }

\* the override list names vocabulary entry i: its membership differs from
\* the list's baseline
ListNames(e, elems, i) ==
  e.set /\ parseList(e.val, elems)[i]
             # (IF e.val # <<>> /\ e.val[1] = "^" THEN 1 ELSE 0)

\* the override list disables vocabulary entry i
ListDisables(e, elems, i) == e.set /\ parseList(e.val, elems)[i] = 0

SixNonNegative(e) ==
  e.set /\ Len(e.val) = 6 /\ \A k \in 1 .. 6 : e.val[k] >= 0

\* C1: after ncclTopoSetThresholds on a multi-rank cluster with the
\* thread-threshold override set to six non-negative integers, Tree's
\* thresholds are the first three, Ring's the last three, and CollNet's
\* three thresholds are the per-protocol default constants.
C1_OverrideLeavesCollNetDefaults ==
  (pc = "ready" /\ nRanks > 1 /\ SixNonNegative(env.NCCL_THREAD_THRESHOLDS)) =>
    LET v == env.NCCL_THREAD_THRESHOLDS.val
    IN /\ \A p \in Protos : threadThresholds[NCCL_ALGO_TREE][p] = v[p + 1]
       /\ \A p \in Protos : threadThresholds[NCCL_ALGO_RING][p] = v[p + 4]
       /\ threadThresholds[NCCL_ALGO_COLLNET][NCCL_PROTO_LL] = NCCL_LL_THREAD_THRESHOLD
       /\ threadThresholds[NCCL_ALGO_COLLNET][NCCL_PROTO_LL128] = NCCL_LL128_THREAD_THRESHOLD
       /\ threadThresholds[NCCL_ALGO_COLLNET][NCCL_PROTO_SIMPLE] = NCCL_SIMPLE_THREAD_THRESHOLD

\* C2 as stated: once ncclTopoSetThresholds has returned, for every cluster
\* shape, every cell of the four tables has been assigned by it.
C2_EveryCellAssigned == pc = "ready" => assigned = AllCells

\* the cells of cs are assigned exactly as the amended C2 says
CellsAsAmended(cs) ==
  \A x \in cs :
    LET c == x[1]
        a == x[2]
        p == x[3]
    IN /\ Cell("maxThreads", 0, a, p) \in assigned
       /\ Cell("threadThresholds", 0, a, p) \in assigned <=> nRanks > 1
       /\ Cell("latencies", c, a, p) \in assigned
            <=> (nRanks > 1 /\ (c = ncclCollAllReduce \/ a = NCCL_ALGO_RING))
       /\ Cell("bandwidths", c, a, p) \in assigned
            <=> (nRanks > 1 /\ (c = ncclCollAllReduce \/ a = NCCL_ALGO_RING
                                 \/ pEnable(a, p) = 0 \/ algoEnable[a + 1] = 0))

\* C2 amended: on a single-rank cluster only the maxThreads cells are
\* assigned; on a multi-rank cluster every maxThreads and threadThresholds
\* cell is assigned, a latency cell exactly when its kind is AllReduce or its
\* algorithm is Ring, and a bandwidth cell exactly when that holds or its
\* protocol or algorithm is disabled.  (ncclTopoGetAlgoTime stores to no
\* table, so the tables are inspected when the builder returns and the cell
\* a request reads is inspected at the request.)
C2_AssignedCells ==
  /\ pc = "ready" => CellsAsAmended(Colls \X Algos \X Protos)
  /\ pc = "estimated" =>
       CellsAsAmended({ <<info.coll, info.algorithm, info.protocol>> })

\* a request on a multi-rank communicator reads a bandwidth cell and a
\* latency cell the builder never stored to
C2_Witness ==
  /\ pc = "estimated"
  /\ nRanks > 1
  /\ Cell("bandwidths", info.coll, info.algorithm, info.protocol) \notin assigned
  /\ Cell("latencies", info.coll, info.algorithm, info.protocol) \notin assigned
  /\ time # Sentinel

\* C3: on a multi-rank cluster every bandwidth cell whose protocol or
\* algorithm the override list disables is 0 for every kind, whatever the
\* model gives, and a request on such a cell returns the sentinel.
C3_DisabledIsZero ==
  /\ (pc = "ready" /\ nRanks > 1) =>
       \A a \in Algos, p \in Protos :
         (ListDisables(env.NCCL_PROTO, ncclProtoStr, p + 1)
            \/ ListDisables(env.NCCL_ALGO, ncclAlgoStr, a + 1)) =>
           \A c \in Colls : bandwidths[c][a][p] = RInt(0)
  /\ (/\ pc = "estimated"
      /\ nRanks > 1
      /\ \/ ListDisables(env.NCCL_PROTO, ncclProtoStr, info.protocol + 1)
         \/ ListDisables(env.NCCL_ALGO, ncclAlgoStr, info.algorithm + 1)) =>
         /\ bandwidths[info.coll][info.algorithm][info.protocol] = RInt(0)
         /\ time = Sentinel

C3_Witness ==
  /\ pc = "estimated"
  /\ nRanks > 1
  /\ env.NCCL_PROTO = EnvStr(<<"^","L","L","1","2","8">>)
  /\ info.protocol = NCCL_PROTO_LL128
  /\ info.algorithm = NCCL_ALGO_RING
  /\ modelBw(info.coll, info.algorithm, info.protocol) # RInt(0)
  /\ bandwidths[info.coll][info.algorithm][info.protocol] = RInt(0)
  /\ time = Sentinel

\* C4: a request returns the sentinel exactly when the looked-up bandwidth
\* is 0, and for a nonzero bandwidth the divisor 1000 x corrected bandwidth
\* is nonzero, for every byte count.
C4_SentinelIffZero ==
  pc = "estimated" =>
    LET bw == bandwidths[info.coll][info.algorithm][info.protocol]
    IN /\ time = Sentinel <=> bw = RInt(0)
       /\ bw # RInt(0) =>
            RMul(RInt(1000),
                 correctedBw(bw, info.algorithm, info.protocol, info.nBytes))[1] # 0

C4_Witness ==
  /\ pc = "estimated"
  /\ info.nBytes < 64
  /\ info.algorithm = NCCL_ALGO_TREE
  /\ bandwidths[info.coll][info.algorithm][info.protocol] # RInt(0)
  /\ time # Sentinel

\* C5: on a single-rank cluster ncclTopoSetThresholds writes the maxThreads
\* table only: every bandwidth and latency cell keeps the value it had, and
\* no override or model value is applied.
C5_SingleRankFrame ==
  [][(pc = "created" /\ nRanks <= 1) =>
       /\ bandwidths' = bandwidths
       /\ latencies' = latencies
       /\ threadThresholds' = threadThresholds
       /\ pc' = "ready"
       /\ assigned' = { Cell("maxThreads", 0, a, p) : a \in Algos, p \in Protos }]_vars

C5_Witness ==
  /\ pc = "ready"
  /\ nRanks = 1
  /\ \A c \in Colls, a \in Algos, p \in Protos :
       bandwidths[c][a][p] = RInt(7) /\ latencies[c][a][p] = RInt(7)
  /\ env.NCCL_THREAD_THRESHOLDS.set
  /\ env.NCCL_PROTO.set
  /\ maxThreads[NCCL_ALGO_RING][NCCL_PROTO_SIMPLE] > 0

\* C6: getNthreads returns a valid override unchanged, replaces an invalid
\* positive override by one of the bounds (never by the override itself),
\* and returns the default for an override <= 0.
C6_Resolve ==
  pc = "nt_done" =>
    LET e == ntArgs[1]
        mn == ntArgs[2]
        mx == ntArgs[3]
        df == ntArgs[4]
        valid == e % WARP_SIZE = 0 /\ mn <= e /\ e <= mx
    IN /\ (e > 0 /\ valid) => ntResult = e
       /\ (e > 0 /\ ~valid) => (ntResult \in {mn, mx} /\ ntResult # e)
       /\ e <= 0 => ntResult = df

C6_Witness ==
  /\ pc = "nt_done"
  /\ ntArgs[1] > 0
  /\ ntArgs[1] % WARP_SIZE # 0
  /\ ntArgs[2] < ntArgs[1]
  /\ ntArgs[1] < ntArgs[3]
  /\ ntResult = ntArgs[3]

\* characters equal up to case
FoldEq(c, d) ==
  c = d \/ \E i \in DOMAIN UpperCase : {c, d} = {UpperCase[i], LowerCase[i]}

\* s[i..j] is a token of s: a maximal non-empty run without a comma
IsToken(s, i, j) ==
  /\ i <= j
  /\ \A k \in i .. j : s[k] # ","
  /\ i = 1 \/ s[i - 1] = ","
  /\ j = Len(s) \/ s[j + 1] = ","

TokenNames(s, e) ==
  \E i \in 1 .. Len(s), j \in 1 .. Len(s) :
    /\ IsToken(s, i, j)
    /\ j - i + 1 = Len(e)
    /\ \A k \in 1 .. Len(e) : FoldEq(s[i + k - 1], e[k])

\* C7: with a leading '^' every vocabulary entry is enabled except those a
\* token names, otherwise every entry is disabled except those a token
\* names; matching ignores case, unknown tokens change nothing, and the
\* number of times a token occurs does not matter.
C7_Parse ==
  pc = "pl_done" =>
    LET neg == plStr # <<>> /\ plStr[1] = "^"
        body == IF neg THEN Tail(plStr) ELSE plStr
    IN /\ DOMAIN plList = DOMAIN plElems
       /\ \A i \in DOMAIN plElems :
            plList[i] = IF TokenNames(body, plElems[i]) = neg THEN 0 ELSE 1
       /\ (plStr = <<"^","a",",","b">> /\ plElems = abcStr) => plList = <<0, 0, 1>>
       /\ (plStr = <<"a",",","b">> /\ plElems = abcStr) => plList = <<1, 1, 0>>

C7_Witness ==
  /\ pc = "pl_done"
  /\ plStr = <<"^","A",",","a">>
  /\ plElems = abcStr
  /\ plList = <<0, 1, 1>>

\* the correction factor ncclTopoGetAlgoTime applies at a byte count
FactorAt(n) == correction(info.algorithm, info.protocol, log2i(n \div 64))

\* C8 as stated: for a fixed kind, algorithm and protocol with nonzero
\* bandwidth the estimate is non-decreasing in the byte count, also across
\* size buckets.  (Read on the bandwidth cells the builder computed.)
C8_NonDecreasing ==
  (/\ pc = "estimated"
   /\ time # Sentinel
   /\ Cell("bandwidths", info.coll, info.algorithm, info.protocol) \in assigned) =>
    \A n2 \in ByteCounts :
      info.nBytes <= n2 =>
        TLe(time, AlgoTime(info.coll, info.algorithm, info.protocol, n2))

\* C8 amended: for a fixed kind, algorithm and protocol with nonzero
\* bandwidth and byte counts n1 <= n2, the estimate at n1 is at most the
\* estimate at n2 whenever the correction factor applied at n2 does not
\* exceed the one applied at n1 (in particular inside one size bucket, for
\* CollNet, and when both buckets are at or beyond 22).
C8_NonDecreasingUnderFactor ==
  (pc = "estimated" /\ time # Sentinel) =>
    \A n2 \in ByteCounts :
      (info.nBytes <= n2 /\ RLe(FactorAt(n2), FactorAt(info.nBytes))) =>
        TLe(time, AlgoTime(info.coll, info.algorithm, info.protocol, n2))

C8_Witness ==
  /\ pc = "estimated"
  /\ time # Sentinel
  /\ info.algorithm = NCCL_ALGO_RING
  /\ info.protocol = NCCL_PROTO_SIMPLE
  /\ info.nBytes = Pow2(28)
  /\ log2i(info.nBytes \div 64) = 22
  /\ log2i((Pow2(TopBucket + 6) + 1) \div 64) >= 22
  /\ TLe(time, AlgoTime(info.coll, info.algorithm, info.protocol,
                        Pow2(TopBucket + 6) + 1))
  /\ time # AlgoTime(info.coll, info.algorithm, info.protocol,
                     Pow2(TopBucket + 6) + 1)

\* floor(log2(n >> 6)), 0 when n < 64
BucketOf(n) ==
  IF n \div 64 = 0 THEN 0
  ELSE CHOOSE k \in 0 .. (TopBucket + 1) :
         Pow2(k) <= n \div 64 /\ n \div 64 < Pow2(k + 1)

\* C9: for AllReduce with Ring and Simple enabled on a multi-rank cluster,
\* bandwidth = channels x speed x ranks / (2 x (ranks - 1)) with the
\* intra-node speed when nodes <= 2 and the inter-node speed otherwise;
\* latency = 27.9 + 2 x (ranks - 1) x hwLatency (4.5 on the network when
\* nodes > 1, else 2.7 on NVLink and 1.9 on PCI); and for buckets below 22
\* the estimate is latency + bytes / (1000 x bandwidth x ringCorrection),
\* where 1 MiB falls in bucket 14 with factor 0.59.
C9_RingSimpleAllReduce ==
  LET g == graphs[NCCL_ALGO_RING]
      spd == IF nNodes <= 2 THEN g.speedIntra ELSE g.speedInter
      expBw == RMul(RMul(RInt(g.nChannels), spd), Rat(nRanks, 2 * (nRanks - 1)))
      hwl == IF nNodes > 1 THEN Rat(45, 10)
             ELSE IF g.typeIntra = LINK_NVL THEN Rat(27, 10) ELSE Rat(19, 10)
      expLat == RAdd(Rat(279, 10), RMul(RInt(2 * (nRanks - 1)), hwl))
      k == BucketOf(info.nBytes)
      f == IF info.nBytes = Pow2(20) THEN Rat(59, 100)
           ELSE Rat(ringCorrectionFactor[3][k + 1], 100)
      enabled == algoEnable[NCCL_ALGO_RING + 1] # 0 /\ protoEnable[NCCL_PROTO_SIMPLE + 1] # 0
  IN /\ (pc = "ready" /\ nRanks > 1 /\ enabled) =>
          /\ bandwidths[ncclCollAllReduce][NCCL_ALGO_RING][NCCL_PROTO_SIMPLE] = expBw
          /\ latencies[ncclCollAllReduce][NCCL_ALGO_RING][NCCL_PROTO_SIMPLE] = expLat
     /\ (/\ pc = "estimated"
         /\ info.coll = ncclCollAllReduce
         /\ info.algorithm = NCCL_ALGO_RING
         /\ info.protocol = NCCL_PROTO_SIMPLE
         /\ nRanks > 1
         /\ k < 22
         /\ enabled) =>
          time = MixedSum(expLat, info.nBytes, RMul(RInt(1000), RMul(expBw, f)))

\* 2 nodes, 16 ranks, NVLink inside the node, 1 MiB:
\* 162.9 + 1048576 / (1000 x 25.6 x 0.59) = 232 + 191/590 us
C9_Witness ==
  /\ pc = "estimated"
  /\ nNodes = 2
  /\ nRanks = 16
  /\ graphs[NCCL_ALGO_RING] = GraphA
  /\ info = [coll |-> ncclCollAllReduce, algorithm |-> NCCL_ALGO_RING,
             protocol |-> NCCL_PROTO_SIMPLE, nBytes |-> Pow2(20)]
  /\ BucketOf(info.nBytes) = 14
  /\ bandwidths[ncclCollAllReduce][NCCL_ALGO_RING][NCCL_PROTO_SIMPLE] = Rat(128, 5)
  /\ latencies[ncclCollAllReduce][NCCL_ALGO_RING][NCCL_PROTO_SIMPLE] = Rat(1629, 10)
  /\ time = <<232, 191, 590>>

\* C10: on a multi-rank cluster, for every algorithm whose graph fails the
\* auto-detect condition, if the protocol override is unset or its list does
\* not name LL128, every LL128 bandwidth cell of that algorithm is 0.
C10_LL128StaysDisabled ==
  (pc = "ready" /\ nRanks > 1) =>
    \A a \in Algos :
      (/\ ~(/\ compCap[1] = 70
            /\ compCap[2] = 70
            /\ graphs[a].typeInter <= LINK_PCI
            /\ graphs[a].typeIntra = LINK_NVL)
       /\ ~ListNames(env.NCCL_PROTO, ncclProtoStr, NCCL_PROTO_LL128 + 1)) =>
        \A c \in Colls : bandwidths[c][a][NCCL_PROTO_LL128] = RInt(0)
====
